---- MODULE Spec2Model ----
(***************************************************************************)
(* A model of the mcp_postgres gateway: the schema gate, the read-only     *)
(* query guard with limit injection, the table-read statement builder, the *)
(* result packager and the tool handlers running over a shared connection  *)
(* pool.  Texts are sequences of one-character strings so that trimming,   *)
(* case folding and the regular expressions of the handlers are computed   *)
(* character by character.                                                 *)
(***************************************************************************)
EXTENDS Integers, Sequences, FiniteSets, TLC

VARIABLES entryPoint, allowedSchemas, conns, calls, probe

vars == <<entryPoint, allowedSchemas, conns, calls, probe>>

(***************************************************************************)
(* Bounds of the model.                                                    *)
(***************************************************************************)
MaxPhrases == 2

(***************************************************************************)
(* Characters and JavaScript string primitives.                            *)
(***************************************************************************)
LowerLetters == <<"a","b","c","d","e","f","g","h","i","j","k","l","m","n","o","p","q","r","s","t","u","v","w","x","y","z">>

UpperLetters == <<"A","B","C","D","E","F","G","H","I","J","K","L","M","N","O","P","Q","R","S","T","U","V","W","X","Y","Z">>

DigitChars == <<"0","1","2","3","4","5","6","7","8","9">>

Range(f) == {f[i] : i \in DOMAIN f}

Min(a, b) == IF a <= b THEN a ELSE b

Max(a, b) == IF a >= b THEN a ELSE b

\* \w of a JavaScript regular expression without the u flag
WordChars == Range(LowerLetters) \cup Range(UpperLetters) \cup Range(DigitChars) \cup {"_"}

IsWordChar(c) == c \in WordChars

\* \s, and the characters String.prototype.trim strips
SpaceChars == {" ", "\n", "\t"}

IsSpace(c) == c \in SpaceChars

DigitSet == Range(DigitChars)

IsDigit(c) == c \in DigitSet

UpperSet == Range(UpperLetters)

LowerOf == [c \in UpperSet |-> LowerLetters[CHOOSE i \in DOMAIN UpperLetters : UpperLetters[i] = c]]

LowerChar(c) == IF c \in UpperSet THEN LowerOf[c] ELSE c

toLowerCase(s) == [i \in 1..Len(s) |-> LowerChar(s[i])]

trim(s) ==
  LET keep == {i \in 1..Len(s) : ~IsSpace(s[i])}
  IN  IF keep = {} THEN << >>
      ELSE SubSeq(s, CHOOSE i \in keep : \A j \in keep : i <= j,
                     CHOOSE i \in keep : \A j \in keep : i >= j)

startsWith(s, p) == Len(s) >= Len(p) /\ SubSeq(s, 1, Len(p)) = p

DigitValue(c) == (CHOOSE i \in DOMAIN DigitChars : DigitChars[i] = c) - 1

RECURSIVE parseInt(_)
parseInt(ds) ==
  IF ds = << >> THEN 0
  ELSE 10 * parseInt(SubSeq(ds, 1, Len(ds) - 1)) + DigitValue(ds[Len(ds)])

RECURSIVE NumberToString(_)
NumberToString(n) ==
  IF n < 10 THEN <<DigitChars[n + 1]>>
  ELSE NumberToString(n \div 10) \o <<DigitChars[(n % 10) + 1]>>

\* first index >= i of s that holds no whitespace (Len(s) + 1 when there is none)
RECURSIVE SkipSpaces(_, _)
SkipSpaces(s, i) == IF i <= Len(s) /\ IsSpace(s[i]) THEN SkipSpaces(s, i + 1) ELSE i

\* first index >= i of s that holds no digit
RECURSIVE SkipDigits(_, _)
SkipDigits(s, i) == IF i <= Len(s) /\ IsDigit(s[i]) THEN SkipDigits(s, i + 1) ELSE i

\* \b between positions i-1 and i of s
WordBoundary(s, i) ==
  LET before == i > 1 /\ i - 1 <= Len(s) /\ IsWordChar(s[i - 1])
      after  == i >= 1 /\ i <= Len(s) /\ IsWordChar(s[i])
  IN  before # after

\* the literal w, compared under the i flag, occupies s[i .. i + Len(w) - 1]
LiteralAt(s, i, w) ==
  /\ i + Len(w) - 1 <= Len(s)
  /\ toLowerCase(SubSeq(s, i, i + Len(w) - 1)) = w

(***************************************************************************)
(* Schema gate.                                                            *)
(***************************************************************************)
\* includes, were names compared without regard to case
includesIgnoreCase(arr, x) == \E i \in DOMAIN arr : toLowerCase(arr[i]) = toLowerCase(x)

\* Array.prototype.includes on an array of strings
includes(arr, x) == \E i \in DOMAIN arr : arr[i] = x

isSchemaAllowed(allowed, schema) ==
  IF Len(allowed) = 0 THEN TRUE ELSE includes(allowed, schema)

\* TRUE when assertSchemaAllowed throws
assertSchemaAllowedThrows(schema, allowed) ==
  Len(allowed) > 0 /\ ~includes(allowed, schema)

(***************************************************************************)
(* Query guard of execute_query: prefix check, deny list, limit injection. *)
(***************************************************************************)
KwSelect == <<"s","e","l","e","c","t">>

KwWith == <<"w","i","t","h">>

KwLimit == <<"l","i","m","i","t">>

LimitPrefix == <<"L","I","M","I","T"," ">>

forbiddenKeywords ==
  << <<"i","n","s","e","r","t">>,
     <<"u","p","d","a","t","e">>,
     <<"d","e","l","e","t","e">>,
     <<"d","r","o","p">>,
     <<"a","l","t","e","r">>,
     <<"c","r","e","a","t","e">>,
     <<"t","r","u","n","c","a","t","e">>,
     <<"g","r","a","n","t">>,
     <<"r","e","v","o","k","e">>,
     <<"e","x","e","c","u","t","e">>,
     <<"c","o","p","y">> >>

objectContextWords ==
  { <<"i","n","t","o">>,
    <<"f","r","o","m">>,
    <<"t","a","b","l","e">>,
    <<"s","c","h","e","m","a">>,
    <<"d","a","t","a","b","a","s","e">>,
    <<"i","n","d","e","x">>,
    <<"f","u","n","c","t","i","o","n">>,
    <<"p","r","o","c","e","d","u","r","e">>,
    <<"t","r","i","g","g","e","r">>,
    <<"r","o","l","e">>,
    <<"u","s","e","r">>,
    <<"p","r","i","v","i","l","e","g","e","s">>,
    <<"o","n">>,
    <<"a","l","l">> }

\* ForbiddenAt, were the expression not closed by a word boundary
ForbiddenAtOpenEnded(s, i, keyword) ==
  LET afterKeyword == i + Len(keyword)
      ctxAt        == SkipSpaces(s, afterKeyword)
  IN  /\ WordBoundary(s, i)
      /\ LiteralAt(s, i, keyword)
      /\ WordBoundary(s, afterKeyword)
      /\ ctxAt > afterKeyword
      /\ \E w \in objectContextWords : LiteralAt(s, ctxAt, w)

\* the regular expression built for one keyword, anchored at position i of s
ForbiddenAt(s, i, keyword) ==
  LET afterKeyword == i + Len(keyword)
      ctxAt        == SkipSpaces(s, afterKeyword)
  IN  /\ WordBoundary(s, i)
      /\ LiteralAt(s, i, keyword)
      /\ WordBoundary(s, afterKeyword)
      /\ ctxAt > afterKeyword
      /\ \E w \in objectContextWords :
            LiteralAt(s, ctxAt, w) /\ WordBoundary(s, ctxAt + Len(w))

\* regex.test(query) for the regular expression of one keyword
regexTest(keyword, s) == \E i \in 1..Len(s) : ForbiddenAt(s, i, keyword)

\* /\bLIMIT\s+\d+/i anchored at position i of s: index of the last matched
\* character, 0 when there is no match at i
LimitMatchEnd(s, i) ==
  LET spacesAt == i + Len(KwLimit)
      digitsAt == SkipSpaces(s, spacesAt)
      after    == SkipDigits(s, digitsAt)
  IN  IF /\ WordBoundary(s, i)
         /\ LiteralAt(s, i, KwLimit)
         /\ digitsAt > spacesAt
         /\ after > digitsAt
      THEN after - 1 ELSE 0

hasLimit(s) == \E i \in 1..Len(s) : LimitMatchEnd(s, i) # 0

\* finalQuery.match(/\bLIMIT\s+(\d+)/i): the leftmost match and its group
limitMatch(s) ==
  LET at == CHOOSE i \in 1..Len(s) :
              /\ LimitMatchEnd(s, i) # 0
              /\ \A j \in 1..(i - 1) : LimitMatchEnd(s, j) = 0
      end == LimitMatchEnd(s, at)
  IN  [index |-> at, end |-> end,
       group1 |-> SubSeq(s, SkipSpaces(s, at + Len(KwLimit)), end)]

safeLimitOf(limit) == Min(Max(1, limit), 100)

\* injectLimit, were an existing LIMIT capped by the requested limit
injectLimitRequestedCap(query, limit) ==
  LET safeLimit  == safeLimitOf(limit)
      finalQuery == trim(query)
  IN  IF ~hasLimit(finalQuery)
      THEN finalQuery \o <<" ">> \o LimitPrefix \o NumberToString(safeLimit)
      ELSE LET m              == limitMatch(finalQuery)
               effectiveLimit == Min(parseInt(m.group1), safeLimit)
           IN  SubSeq(finalQuery, 1, m.index - 1)
                 \o LimitPrefix \o NumberToString(effectiveLimit)
                 \o SubSeq(finalQuery, m.end + 1, Len(finalQuery))

\* injectLimit, were the statement not trimmed
injectLimitUntrimmed(query, limit) ==
  LET safeLimit  == safeLimitOf(limit)
      finalQuery == query
  IN  IF ~hasLimit(finalQuery)
      THEN finalQuery \o <<" ">> \o LimitPrefix \o NumberToString(safeLimit)
      ELSE LET m              == limitMatch(finalQuery)
               effectiveLimit == Min(parseInt(m.group1), 100)
           IN  SubSeq(finalQuery, 1, m.index - 1)
                 \o LimitPrefix \o NumberToString(effectiveLimit)
                 \o SubSeq(finalQuery, m.end + 1, Len(finalQuery))

\* injectLimit, were the clause appended without the test for an existing one
injectLimitUnconditional(query, limit) ==
  LET safeLimit  == safeLimitOf(limit)
      finalQuery == trim(query)
  IN  finalQuery \o <<" ">> \o LimitPrefix \o NumberToString(safeLimit)

\* the LIMIT handling of the handler: the statement that will be executed
injectLimit(query, limit) ==
  LET safeLimit  == safeLimitOf(limit)
      finalQuery == trim(query)
  IN  IF ~hasLimit(finalQuery)
      THEN finalQuery \o <<" ">> \o LimitPrefix \o NumberToString(safeLimit)
      ELSE LET m              == limitMatch(finalQuery)
               effectiveLimit == Min(parseInt(m.group1), 100)
           IN  SubSeq(finalQuery, 1, m.index - 1)
                 \o LimitPrefix \o NumberToString(effectiveLimit)
                 \o SubSeq(finalQuery, m.end + 1, Len(finalQuery))

\* index in forbiddenKeywords of the first keyword whose test succeeds, or 0
firstForbidden(query) ==
  LET hits == {k \in DOMAIN forbiddenKeywords : regexTest(forbiddenKeywords[k], query)}
  IN  IF hits = {} THEN 0 ELSE CHOOSE k \in hits : \A h \in hits : k <= h

\* prefixAllowed, were the text not trimmed before the comparison
prefixAllowedUntrimmed(query) ==
  LET normalizedQuery == toLowerCase(query)
  IN  startsWith(normalizedQuery, KwSelect) \/ startsWith(normalizedQuery, KwWith)

prefixAllowed(query) ==
  LET normalizedQuery == toLowerCase(trim(query))
  IN  startsWith(normalizedQuery, KwSelect) \/ startsWith(normalizedQuery, KwWith)

\* the synchronous head of the execute_query handler, up to pool.connect()
executeQueryGuard(query, limit) ==
  IF ~prefixAllowed(query)
  THEN [error |-> "InvalidOperation", rule |-> "prefix", keyword |-> 0,
        finalQuery |-> << >>]
  ELSE LET keyword == firstForbidden(query)
       IN  IF keyword # 0
           THEN [error |-> "InvalidOperation", rule |-> "keyword",
                 keyword |-> keyword, finalQuery |-> << >>]
           ELSE [error |-> "none", rule |-> "none", keyword |-> 0,
                 finalQuery |-> injectLimit(query, limit)]

(***************************************************************************)
(* Statement builder of query_table.                                       *)
(***************************************************************************)
\* buildQueryTable, were the cap written into the text of the statement
buildQueryTableInterpolated(schema, table, columns, where, limit) ==
  LET safeLimit == safeLimitOf(limit)
      base      == <<"S","E","L","E","C","T"," ">> \o columns
                     \o <<" ","F","R","O","M"," ","\"">> \o schema
                     \o <<"\"",".","\"">> \o table \o <<"\"">>
      filtered  == IF where # << >>
                   THEN base \o <<" ","W","H","E","R","E"," ">> \o where
                   ELSE base
  IN  [query  |-> filtered \o <<" ">> \o LimitPrefix \o NumberToString(safeLimit),
       params |-> << >>,
       limit  |-> safeLimit]

buildQueryTable(schema, table, columns, where, limit) ==
  LET safeLimit == safeLimitOf(limit)
      base      == <<"S","E","L","E","C","T"," ">> \o columns
                     \o <<" ","F","R","O","M"," ","\"">> \o schema
                     \o <<"\"",".","\"">> \o table \o <<"\"">>
      filtered  == IF where # << >>
                   THEN base \o <<" ","W","H","E","R","E"," ">> \o where
                   ELSE base
  IN  [query  |-> filtered \o <<" ">> \o LimitPrefix \o <<"$">> \o NumberToString(0 + 1),
       params |-> <<safeLimit>>,
       limit  |-> safeLimit]

(***************************************************************************)
(* Result packager.  A long text is a sequence of runs [c, n], n > 0       *)
(* repetitions of character c, adjacent runs holding different characters, *)
(* so that equal texts are equal values.                                   *)
(***************************************************************************)
CHARACTER_LIMIT == 25000

\* s followed by n repetitions of c
AddRun(s, c, n) ==
  IF n = 0 THEN s
  ELSE IF s # << >> /\ s[Len(s)].c = c
  THEN [s EXCEPT ![Len(s)].n = @ + n]
  ELSE Append(s, [c |-> c, n |-> n])

\* string concatenation
Cat(a, b) ==
  IF a = << >> THEN b
  ELSE IF b = << >> THEN a
  ELSE IF a[Len(a)].c = b[1].c
  THEN SubSeq(a, 1, Len(a) - 1)
         \o << [c |-> b[1].c, n |-> a[Len(a)].n + b[1].n] >> \o Tail(b)
  ELSE a \o b

\* the long text holding the characters of chars
Packed(chars) ==
  LET starts == {i \in 1..Len(chars) : i = 1 \/ chars[i] # chars[i - 1]}
      nth(k) == CHOOSE i \in starts : Cardinality({j \in starts : j < i}) = k - 1
      end(k) == IF k = Cardinality(starts) THEN Len(chars) ELSE nth(k + 1) - 1
  IN  [k \in 1..Cardinality(starts) |-> [c |-> chars[nth(k)], n |-> end(k) - nth(k) + 1]]

\* String.prototype.length
RECURSIVE Length(_)
Length(s) ==
  IF Len(s) = 0 THEN 0
  ELSE IF Len(s) = 1 THEN s[1].n
  ELSE LET half == Len(s) \div 2
       IN  Length(SubSeq(s, 1, half)) + Length(SubSeq(s, half + 1, Len(s)))

\* s.slice(0, k)
Slice0(s, k) ==
  IF k <= 0 THEN << >>
  ELSE IF Length(s) <= k THEN s
  ELSE LET j    == CHOOSE i \in 1..Len(s) :
                     /\ Length(SubSeq(s, 1, i)) >= k
                     /\ Length(SubSeq(s, 1, i - 1)) < k
           kept == Length(SubSeq(s, 1, j - 1))
       IN  SubSeq(s, 1, j - 1) \o << [c |-> s[j].c, n |-> k - kept] >>

Spaces(n) == AddRun(<< >>, " ", n)

\* JSON values: [t |-> "str", v |-> long text], [t |-> "num", v |-> n],
\* [t |-> "arr", v |-> sequence of values],
\* [t |-> "obj", v |-> sequence of [key |-> characters, value |-> value]]
JStr(s) == [t |-> "str", v |-> s]

JNum(n) == [t |-> "num", v |-> n]

JArr(vs) == [t |-> "arr", v |-> vs]

JObj(ms) == [t |-> "obj", v |-> ms]

\* JSON.stringify(value, null, 2) of a value nested at the given indentation
RECURSIVE Stringify(_, _)
RECURSIVE StringifyItems(_, _, _)
StringifyItems(items, isObject, indent) ==
  IF items = << >> THEN << >>
  ELSE LET item  == Head(items)
           label == IF isObject
                    THEN Cat(Packed(<<"\"">> \o item.key), Packed(<<"\"", ":", " ">>))
                    ELSE << >>
           value == Stringify(IF isObject THEN item.value ELSE item, indent)
           one   == Cat(Cat(Spaces(indent), label), value)
       IN  IF Len(items) = 1 THEN one
           ELSE Cat(Cat(one, Packed(<<",", "\n">>)),
                    StringifyItems(Tail(items), isObject, indent))

Stringify(value, indent) ==
  CASE value.t = "str" -> Cat(Cat(Packed(<<"\"">>), value.v), Packed(<<"\"">>))
    [] value.t = "num" -> Packed(NumberToString(value.v))
    [] value.t \in {"arr", "obj"} ->
         LET open  == IF value.t = "arr" THEN "[" ELSE "{"
             close == IF value.t = "arr" THEN "]" ELSE "}"
         IN  IF value.v = << >> THEN Packed(<<open, close>>)
             ELSE Cat(Cat(Cat(Packed(<<open, "\n">>),
                              StringifyItems(value.v, value.t = "obj", indent + 2)),
                          Cat(Packed(<<"\n">>), Spaces(indent))),
                      Packed(<<close>>))

JSONstringify(data) == Stringify(data, 0)

\* "\n\n...[RESPUESTA TRUNCADA: "
NoticeHead == <<"\n","\n",".",".",".","[","R","E","S","P","U","E","S","T","A"," ","T","R","U","N","C","A","D","A",":"," ">>

\* " chars totales. Usa filtros de columnas, cláusula WHERE o paginación para
\* reducir los resultados.]"
NoticeTail == <<" ","c","h","a","r","s"," ","t","o","t","a","l","e","s","."," ","U","s","a"," ","f","i","l","t","r","o","s"," ","d","e"," ","c","o","l","u","m","n","a","s",","," ","c","l","á","u","s","u","l","a"," ","W","H","E","R","E"," ","o"," ","p","a","g","i","n","a","c","i","ó","n"," ","p","a","r","a"," ","r","e","d","u","c","i","r"," ","l","o","s"," ","r","e","s","u","l","t","a","d","o","s",".","]">>

TruncationNotice(length) ==
  Cat(Cat(Packed(NoticeHead), Packed(NumberToString(length))), Packed(NoticeTail))

\* formatResult, were the notice appended to the whole text
formatResultUnsliced(data) ==
  LET text == JSONstringify(data)
  IN  IF Length(text) <= CHARACTER_LIMIT
      THEN [text |-> text]
      ELSE [text |-> Cat(text, TruncationNotice(Length(text)))]

\* formatResult, were the notice to state the length of the truncated text
formatResultTruncatedLength(data) ==
  LET text == JSONstringify(data)
  IN  IF Length(text) <= CHARACTER_LIMIT
      THEN [text |-> text]
      ELSE LET truncated == Slice0(text, CHARACTER_LIMIT)
           IN  [text |-> Cat(truncated, TruncationNotice(Length(truncated)))]

\* formatResult, were the notice to depend on what was formatted before
formatResultRemembering(data) ==
  LET text == JSONstringify(data)
  IN  IF Length(text) <= CHARACTER_LIMIT
      THEN [text |-> text]
      ELSE LET truncated == Slice0(text, CHARACTER_LIMIT)
           IN  [text |-> Cat(truncated,
                             TruncationNotice(Length(text) + Length(probe.out.text)))]

\* the text of the single content item that formatResult returns
formatResult(data) ==
  LET text == JSONstringify(data)
  IN  IF Length(text) <= CHARACTER_LIMIT
      THEN [text |-> text]
      ELSE LET truncated == Slice0(text, CHARACTER_LIMIT)
           IN  [text |-> Cat(truncated, TruncationNotice(Length(text)))]

(***************************************************************************)
(* Inputs of the pure-function specifications.                             *)
(***************************************************************************)
Heads ==
  {
    <<"S","E","L","E","C","T"," ","*">>,   \* SELECT *
    <<"S","E","L","E","C","T">>,   \* SELECT
    <<" ","\n","S","e","l","e","c","t"," ","a">>,   \*  \nSelect a
    <<"W","i","t","h"," ","q"," ","a","s"," ","(","s","e","l","e","c","t"," ","1",")"," ","s","e","l","e","c","t"," ","*">>,   \* With q as (select 1) select *
    <<"s","e","l","e","c","t","i","o","n">>,   \* selection
    <<"D","E","L","E","T","E">>,   \* DELETE
    <<"e","x","p","l","a","i","n"," ","s","e","l","e","c","t">>,   \* explain select
    << >>   \* 
  }

Phrases ==
  {
    <<" ","F","R","O","M"," ","t">>,   \*  FROM t
    <<" ","F","R","O","M"," ","u","s","e","r","s">>,   \*  FROM users
    <<" ","F","R","O","M"," ","l","o","g","s">>,   \*  FROM logs
    <<" ","d","e","l","e","t","e","_","d","a","t","e">>,   \*  delete_date
    <<" ","D","e","l","e","t","e","\n"," ","F","r","o","m">>,   \*  Delete\n From
    <<"a","g","e">>,   \* age
    <<" ","L","I","M","I","T"," ","5","0","0">>,   \*  LIMIT 500
    <<" ","l","i","m","i","t"," ","0">>,   \*  limit 0
    <<"\n","L","i","m","i","t"," "," ","0","0","7">>,   \* \nLimit  007
    <<" ","w","h","e","r","e"," ","e","x","i","s","t","s"," ","(","s","e","l","e","c","t"," ","1"," ","f","r","o","m"," ","s"," ","l","i","m","i","t"," ","1",")">>,   \*  where exists (select 1 from s limit 1)
    <<" ","u","n","l","i","m","i","t"," ","9">>,   \*  unlimit 9
    <<" ">>   \*  
  }

RECURSIVE Flatten(_)
Flatten(ss) == IF ss = << >> THEN << >> ELSE Head(ss) \o Flatten(Tail(ss))

PhraseSeqs == UNION {[1..n -> Phrases] : n \in 0..MaxPhrases}

Texts == {h \o Flatten(ps) : h \in Heads, ps \in PhraseSeqs}

RequestedCaps == {1, 5, 100}

\* limits the JSON-schema-only entry point lets through to the handler
UncheckedCaps == {0, 500}

sPub == <<"p","u","b">>

sPubUpper == <<"P","u","b">>

sPu == <<"p","u">>

sApp == <<"a","p","p">>

SchemaNames == {sPub, sPubUpper, sPu, sApp}

\* configurations of DB_SCHEMAS and request arguments of the handler specification
AllowedConfigs == { << >>, <<sPub, sApp>> }

RequestSchemas == {sPub, sPubUpper}

QueryNames ==
  {"schemata", "count", "page", "columns", "constraints", "indexes", "lookup", "select"}

\* "SELECT * FROM t LIMIT 500"
ex500 == <<"S","E","L","E","C","T"," ","*"," ","F","R","O","M"," ","t"," ","L","I","M","I","T"," ","5","0","0">>

\* "SELECT * FROM t LIMIT 100"
ex100 == <<"S","E","L","E","C","T"," ","*"," ","F","R","O","M"," ","t"," ","L","I","M","I","T"," ","1","0","0">>

\* "DELETE FROM users"
exDel == <<"D","E","L","E","T","E"," ","F","R","O","M"," ","u","s","e","r","s">>

\* "SELECT delete_date FROM logs"
exDelDate == <<"S","E","L","E","C","T"," ","d","e","l","e","t","e","_","d","a","t","e"," ","F","R","O","M"," ","l","o","g","s">>

\* "SELECT a Delete\n From b"
exKeyword == <<"S","E","L","E","C","T"," ","a"," ","D","e","l","e","t","e","\n"," ","F","r","o","m"," ","b">>

\* "SELECT * FROM t where exists (select 1 from s limit 1)"
exNested == <<"S","E","L","E","C","T"," ","*"," ","F","R","O","M"," ","t"," ","w","h","e","r","e"," ","e","x","i","s","t","s"," ","(","s","e","l","e","c","t"," ","1"," ","f","r","o","m"," ","s"," ","l","i","m","i","t"," ","1",")">>

\* "SELECT * FROM t limit 0"
exZero == <<"S","E","L","E","C","T"," ","*"," ","F","R","O","M"," ","t"," ","l","i","m","i","t"," ","0">>

ExecTexts == {ex500, exDel, exKeyword}

ExecCaps == {5}

(***************************************************************************)
(* The tool handlers over the shared connection pool.                      *)
(***************************************************************************)
PoolSize == 2

NCalls == 2

Conns == 1..PoolSize

CallIds == 1..NCalls

Entries == {"modular", "legacy"}

SchemaOps ==
  {"list_tables", "describe_table", "list_functions", "list_triggers",
   "get_function_definition", "get_trigger_definition", "query_table"}

PoolOps == SchemaOps \cup {"list_schemas"}

\* the pool.query calls of a handler: a sequence of stages, the queries of one
\* stage being issued together and awaited together
Plan(entry, op) ==
  CASE op = "list_schemas" -> << {"schemata"} >>
    [] op \in {"list_tables", "list_functions", "list_triggers"} ->
         IF entry = "modular" THEN << {"count"}, {"page"} >> ELSE << {"page"} >>
    [] op = "describe_table" ->
         IF entry = "modular"
         THEN << {"columns", "constraints", "indexes"} >>
         ELSE << {"columns"}, {"constraints"}, {"indexes"} >>
    [] op \in {"get_function_definition", "get_trigger_definition"} -> << {"lookup"} >>
    [] op = "query_table" -> << {"select"} >>

\* GateThrows, were the check missing from the registered handlers
GateThrowsLegacyOnly(entry, schema, allowed) ==
  IF entry = "legacy" THEN ~isSchemaAllowed(allowed, schema) ELSE FALSE

\* the schema check at the head of a handler: TRUE when it throws
GateThrows(entry, schema, allowed) ==
  IF entry = "legacy"
  THEN ~isSchemaAllowed(allowed, schema)
  ELSE assertSchemaAllowedThrows(schema, allowed)

STATEMENT_TIMEOUT == 30000

\* searchPathOf, were the names joined as they are
RECURSIVE searchPathUnquoted(_)
searchPathUnquoted(allowed) ==
  IF Len(allowed) = 0 THEN << >>
  ELSE IF Len(allowed) = 1 THEN allowed[1]
  ELSE allowed[1] \o <<",", " ">> \o searchPathUnquoted(Tail(allowed))

\* allowedSchemas.map((s) => `"${s}"`).join(', ')
RECURSIVE searchPathOf(_)
searchPathOf(allowed) ==
  IF Len(allowed) = 0 THEN << >>
  ELSE IF Len(allowed) = 1 THEN <<"\"">> \o allowed[1] \o <<"\"">>
  ELSE <<"\"">> \o allowed[1] \o <<"\"">> \o <<",", " ">> \o searchPathOf(Tail(allowed))

\* session settings of a fresh connection; setBy fields name the call whose
\* SET statement produced the current value (0: the server default)
FreshConn ==
  [busy |-> FALSE, statement_timeout |-> 0, timeoutBy |-> 0,
   search_path |-> << >>, pathBy |-> 0]

\* the three statements of describe_table, in the order the handler lists them
DescribeQueries == <<"columns", "constraints", "indexes">>

\* no result object: the handler has not returned one
NoResponse == [columns |-> "none", constraints |-> "none", indexes |-> "none"]

IdleCall ==
  [pc |-> "idle", entry |-> "none", op |-> "none", schema |-> << >>,
   query |-> << >>, limit |-> 0, finalQuery |-> << >>,
   stage |-> 0, waiting |-> {}, inflight |-> {}, empty |-> FALSE,
   client |-> 0, acquired |-> 0, released |-> 0,
   completed |-> << >>, failed |-> {},
   sent |-> << >>, result |-> "none", error |-> "none", packager |-> "none",
   response |-> NoResponse]

\* what the database sees of one statement: whether it came through
\* pool.query or through the dedicated client, and the session settings of
\* connection c in force when it ran
Sent(stmt, via, c) ==
  [stmt |-> stmt, via |-> via,
   statement_timeout |-> conns[c].statement_timeout, timeoutBy |-> conns[c].timeoutBy,
   search_path |-> conns[c].search_path, pathBy |-> conns[c].pathBy]

Failed(call, err) == [call EXCEPT !.pc = "done", !.result = "error", !.error = err]

\* what turns the result object of a handler into the text of its response:
\* the registered handlers return formatResult(...), the cases of
\* handleToolCall return JSON.stringify(..., null, 2) in a content item
Packager(entry, op) ==
  IF entry = "modular" THEN "formatResult" ELSE "JSON.stringify"

\* PromiseAll, were the results delivered in the order of completion
PromiseAllByArrival(queries, completed) == completed

\* the array Promise.all resolves to: the rows of each query at the position
\* of that query in the argument, whatever the order of completion (the rows
\* of a query are written as the name of the query)
PromiseAll(queries, completed) ==
  [k \in DOMAIN queries |-> CHOOSE q \in Range(completed) : q = queries[k]]

\* const [columnsResult, constraintsResult, indexesResult] = ...; the legacy
\* handler binds each result by its own await
describeResult(call) ==
  LET results == IF call.entry = "modular"
                 THEN PromiseAll(DescribeQueries, call.completed)
                 ELSE call.completed
  IN  [columns |-> results[1], constraints |-> results[2], indexes |-> results[3]]

\* the return statement of a handler
Succeeded(call) ==
  [call EXCEPT !.pc = "done", !.result = "ok",
               !.packager = Packager(call.entry, call.op),
               !.response = IF call.op = "describe_table"
                            THEN describeResult(call) ELSE NoResponse]

Init ==
  /\ entryPoint \in Entries
  /\ allowedSchemas \in AllowedConfigs
  /\ conns = [c \in Conns |-> FreshConn]
  /\ calls = [i \in CallIds |-> IdleCall]
  /\ probe = [kind |-> "none"]

\* a request for an operation that reads through pool.query: the handler runs
\* its schema check and submits the queries of its first stage
CallPoolOp(i, op, schema) ==
  /\ calls[i].pc = "idle"
  /\ \A j \in 1..(i - 1) : calls[j].pc # "idle"
  /\ op \in PoolOps
  /\ LET entry == entryPoint
         call  == [calls[i] EXCEPT !.entry = entry, !.op = op, !.schema = schema]
     IN  calls' = [calls EXCEPT ![i] =
           IF op \in SchemaOps /\ GateThrows(entry, schema, allowedSchemas)
           THEN Failed(call, "PermissionDenied")
           ELSE [call EXCEPT !.pc = "run", !.stage = 1,
                             !.waiting = Plan(entry, op)[1]]]
  /\ UNCHANGED <<entryPoint, allowedSchemas, conns, probe>>

\* the pool hands an idle connection to a submitted query, which is sent on it
Dispatch(i, q, c) ==
  /\ q \in calls[i].waiting
  /\ ~conns[c].busy
  /\ conns' = [conns EXCEPT ![c].busy = TRUE]
  /\ calls' = [calls EXCEPT ![i].waiting = @ \ {q},
                            ![i].inflight = @ \cup {<<q, c>>},
                            ![i].sent = Append(@, Sent(q, "pool", c))]
  /\ UNCHANGED <<entryPoint, allowedSchemas, probe>>

\* the handler continues after the last query of a stage has returned rows
StageDone(call) ==
  IF call.stage < Len(Plan(call.entry, call.op))
  THEN [call EXCEPT !.stage = @ + 1,
                    !.waiting = Plan(call.entry, call.op)[call.stage + 1]]
  ELSE IF call.op \in {"get_function_definition", "get_trigger_definition"} /\ call.empty
  THEN Failed(call, "NotFound")
  ELSE Succeeded(call)

\* the database answers a pool query; pool.query releases the connection
Reply(i, q, c, outcome) ==
  /\ <<q, c>> \in calls[i].inflight
  /\ outcome = "empty" => q = "lookup"
  /\ conns' = [conns EXCEPT ![c].busy = FALSE]
  /\ LET call == [calls[i] EXCEPT !.inflight = @ \ {<<q, c>>},
                                  !.empty = (outcome = "empty")]
         got  == [call EXCEPT !.completed = Append(@, q)]
     IN  calls' = [calls EXCEPT ![i] =
           IF calls[i].pc = "done" THEN [calls[i] EXCEPT !.inflight = @ \ {<<q, c>>}]
           ELSE IF outcome = "error"
           THEN Failed([call EXCEPT !.failed = @ \cup {q}], "UpstreamFailure")
           ELSE IF got.inflight = {} /\ got.waiting = {} THEN StageDone(got)
           ELSE got]
  /\ UNCHANGED <<entryPoint, allowedSchemas, probe>>

\* a submitted query gives up waiting for a connection (connectionTimeoutMillis)
AcquireTimeout(i, q) ==
  /\ q \in calls[i].waiting
  /\ \A c \in Conns : conns[c].busy
  /\ LET call == [calls[i] EXCEPT !.waiting = @ \ {q}]
     IN  calls' = [calls EXCEPT ![i] =
           IF calls[i].pc = "done" THEN call
           ELSE Failed([call EXCEPT !.failed = @ \cup {q}], "UpstreamFailure")]
  /\ UNCHANGED <<entryPoint, allowedSchemas, conns, probe>>

\* CallExecuteQuery, were a text that fails validation rewritten and run
CallExecuteQueryRewriting(i, query, limit) ==
  /\ calls[i].pc = "idle"
  /\ \A j \in 1..(i - 1) : calls[j].pc # "idle"
  /\ LET call == [calls[i] EXCEPT !.entry = entryPoint, !.op = "execute_query",
                                  !.query = query, !.limit = limit]
     IN  calls' = [calls EXCEPT ![i] =
           [call EXCEPT !.pc = "connect", !.finalQuery = injectLimit(query, limit)]]
  /\ UNCHANGED <<entryPoint, allowedSchemas, conns, probe>>

\* a request for execute_query: validation and limit handling, then pool.connect()
CallExecuteQuery(i, query, limit) ==
  /\ calls[i].pc = "idle"
  /\ \A j \in 1..(i - 1) : calls[j].pc # "idle"
  /\ LET call  == [calls[i] EXCEPT !.entry = entryPoint, !.op = "execute_query",
                                   !.query = query, !.limit = limit]
         guard == executeQueryGuard(query, limit)
     IN  calls' = [calls EXCEPT ![i] =
           IF guard.error # "none"
           THEN Failed(call, guard.error)
           ELSE [call EXCEPT !.pc = "connect", !.finalQuery = guard.finalQuery]]
  /\ UNCHANGED <<entryPoint, allowedSchemas, conns, probe>>

\* const client = await pool.connect()
Connect(i, c) ==
  /\ calls[i].pc = "connect"
  /\ ~conns[c].busy
  /\ conns' = [conns EXCEPT ![c].busy = TRUE]
  /\ calls' = [calls EXCEPT ![i].pc = "set_timeout", ![i].client = c,
                            ![i].acquired = @ + 1]
  /\ UNCHANGED <<entryPoint, allowedSchemas, probe>>

\* pool.connect() rejects: no connection became available in time
ConnectFail(i) ==
  /\ calls[i].pc = "connect"
  /\ \A c \in Conns : conns[c].busy
  /\ calls' = [calls EXCEPT ![i] = Failed(@, "UpstreamFailure")]
  /\ UNCHANGED <<entryPoint, allowedSchemas, conns, probe>>

\* ExitTry, were client.release() called after the try block, not in finally
ExitTryNoFinally(cs, call, err) ==
  IF err = "none"
  THEN [conns |-> [cs EXCEPT ![call.client].busy = FALSE],
        call  |-> [Succeeded(call) EXCEPT !.released = @ + 1]]
  ELSE [conns |-> cs, call |-> Failed(call, err)]

\* leaving the try block with error err ("none": the return statement): the
\* finally block calls client.release(), which returns the connection to the
\* pool with its session as the statements left it
ExitTry(cs, call, err) ==
  [conns |-> [cs EXCEPT ![call.client].busy = FALSE],
   call  |-> [(IF err = "none" THEN Succeeded(call) ELSE Failed(call, err))
              EXCEPT !.released = @ + 1]]

\* await client.query('SET statement_timeout = 30000')
SetTimeout(i, outcome) ==
  /\ calls[i].pc = "set_timeout"
  /\ LET c    == calls[i].client
         call == [calls[i] EXCEPT !.sent = Append(@, Sent("SET statement_timeout", "client", c))]
         exit == ExitTry(conns, call, "UpstreamFailure")
     IN  IF outcome = "ok"
         THEN /\ conns' = [conns EXCEPT ![c].statement_timeout = STATEMENT_TIMEOUT,
                                        ![c].timeoutBy = i]
              /\ calls' = [calls EXCEPT ![i] =
                   [call EXCEPT !.pc = IF Len(allowedSchemas) > 0
                                       THEN "set_path" ELSE "user"]]
         ELSE /\ conns' = exit.conns
              /\ calls' = [calls EXCEPT ![i] = exit.call]
  /\ UNCHANGED <<entryPoint, allowedSchemas, probe>>

\* await client.query(`SET search_path = ${searchPath}`)
SetSearchPath(i, outcome) ==
  /\ calls[i].pc = "set_path"
  /\ LET c    == calls[i].client
         call == [calls[i] EXCEPT !.sent = Append(@, Sent("SET search_path", "client", c))]
         exit == ExitTry(conns, call, "UpstreamFailure")
     IN  IF outcome = "ok"
         THEN /\ conns' = [conns EXCEPT ![c].search_path = searchPathOf(allowedSchemas),
                                        ![c].pathBy = i]
              /\ calls' = [calls EXCEPT ![i] = [call EXCEPT !.pc = "user"]]
         ELSE /\ conns' = exit.conns
              /\ calls' = [calls EXCEPT ![i] = exit.call]
  /\ UNCHANGED <<entryPoint, allowedSchemas, probe>>

\* UserQuery, were the statement submitted through pool.query while the
\* dedicated client stays checked out
UserQueryThroughPool(i, outcome) ==
  /\ calls[i].pc = "user"
  /\ calls' = [calls EXCEPT ![i].pc = "run", ![i].waiting = {"select"}]
  /\ UNCHANGED <<entryPoint, allowedSchemas, conns, probe>>

\* await client.query(finalQuery), the packaging of its result, and finally;
\* outcome "badresult" is a result the packaging code throws on
UserQuery(i, outcome) ==
  /\ calls[i].pc = "user"
  /\ LET c    == calls[i].client
         call == [calls[i] EXCEPT !.sent = Append(@, Sent("user", "client", c))]
         exit == ExitTry(conns, call,
                         CASE outcome = "ok" -> "none"
                           [] outcome = "badresult" -> "PackagingFailure"
                           [] OTHER -> "UpstreamFailure")
     IN  /\ conns' = exit.conns
         /\ calls' = [calls EXCEPT ![i] = exit.call]
  /\ UNCHANGED <<entryPoint, allowedSchemas, probe>>

Next ==
  \/ \E i \in CallIds, op \in PoolOps, schema \in RequestSchemas :
        CallPoolOp(i, op, schema)
  \/ \E i \in CallIds, q \in QueryNames, c \in Conns : Dispatch(i, q, c)
  \/ \E i \in CallIds, q \in QueryNames, c \in Conns, outcome \in {"rows", "empty", "error"} :
        Reply(i, q, c, outcome)
  \/ \E i \in CallIds, q \in QueryNames : AcquireTimeout(i, q)
  \/ \E i \in CallIds, query \in ExecTexts, limit \in ExecCaps :
        CallExecuteQuery(i, query, limit)
  \/ \E i \in CallIds, c \in Conns : Connect(i, c)
  \/ \E i \in CallIds : ConnectFail(i)
  \/ \E i \in CallIds, outcome \in {"ok", "error"} : SetTimeout(i, outcome)
  \/ \E i \in CallIds, outcome \in {"ok", "error"} : SetSearchPath(i, outcome)
  \/ \E i \in CallIds, outcome \in {"ok", "error", "timeout", "badresult"} :
        UserQuery(i, outcome)

Spec == Init /\ [][Next]_vars

(***************************************************************************)
(* The schema gate as a pure function of the allow-list and the name.      *)
(***************************************************************************)
MaxAllowed == 2

AllowedSeqs == UNION {[1..n -> SchemaNames] : n \in 0..MaxAllowed}

GateInit ==
  /\ entryPoint = "modular"
  /\ allowedSchemas \in AllowedSeqs
  /\ conns = << >>
  /\ calls = << >>
  /\ probe \in {[kind |-> "gate", pc |-> "call", schema |-> s,
                 isAllowed |-> FALSE, throws |-> FALSE] : s \in SchemaNames}

GateRun ==
  /\ probe.kind = "gate"
  /\ probe.pc = "call"
  /\ probe' = [probe EXCEPT
       !.pc = "done",
       !.isAllowed = isSchemaAllowed(allowedSchemas, probe.schema),
       !.throws = assertSchemaAllowedThrows(probe.schema, allowedSchemas)]
  /\ UNCHANGED <<entryPoint, allowedSchemas, conns, calls>>

GateNext == GateRun

SpecGate == GateInit /\ [][GateNext]_vars

(***************************************************************************)
(* The query guard and the statement builder as pure functions of the      *)
(* request: the statement each handler hands to the database.              *)
(***************************************************************************)
tName == <<"t">>

BuildColumns == { <<"*">>, <<"i","d",",","n","a","m","e">> }

BuildWheres == { << >>, <<"a"," ","="," ","1">> }

GuardInit ==
  /\ allowedSchemas = << >>
  /\ conns = << >>
  /\ calls = << >>
  /\ \/ /\ entryPoint = "modular"
        /\ probe \in {[kind |-> "execute_query", pc |-> "call", query |-> q, limit |-> l,
                       out |-> executeQueryGuard(<< >>, 1)] :
                        q \in Texts, l \in RequestedCaps}
     \/ /\ entryPoint \in Entries
        /\ probe \in {[kind |-> "query_table", pc |-> "call", schema |-> sPub,
                       table |-> tName, columns |-> c, where |-> w, limit |-> l,
                       out |-> buildQueryTable(<< >>, << >>, << >>, << >>, 1)] :
                        c \in BuildColumns, w \in BuildWheres,
                        l \in IF entryPoint = "modular"
                              THEN RequestedCaps ELSE RequestedCaps \cup UncheckedCaps}

\* the execute_query handler up to the statement it passes to client.query
GuardRun ==
  /\ probe.kind = "execute_query"
  /\ probe.pc = "call"
  /\ probe' = [probe EXCEPT !.pc = "done",
                            !.out = executeQueryGuard(probe.query, probe.limit)]
  /\ UNCHANGED <<entryPoint, allowedSchemas, conns, calls>>

\* the query_table handler up to the statement it passes to pool.query
BuildRun ==
  /\ probe.kind = "query_table"
  /\ probe.pc = "call"
  /\ probe' = [probe EXCEPT !.pc = "done",
                            !.out = buildQueryTable(probe.schema, probe.table,
                                                    probe.columns, probe.where, probe.limit)]
  /\ UNCHANGED <<entryPoint, allowedSchemas, conns, calls>>

GuardNext == GuardRun \/ BuildRun

SpecGuard == GuardInit /\ [][GuardNext]_vars

(***************************************************************************)
(* The result packager as a pure function of the result structure: a       *)
(* result of rows, each a string of a given length, and their count.       *)
(***************************************************************************)
MaxRows == 2

RowWidths == {0, 7, 24955, 24956, 24957, 30000, 100000}

RowsOf(widths) == [i \in DOMAIN widths |-> JStr(AddRun(<< >>, "x", widths[i]))]

ResultOf(widths) ==
  JObj(<< [key |-> <<"r","o","w","s">>, value |-> JArr(RowsOf(widths))],
          [key |-> <<"r","o","w","_","c","o","u","n","t">>, value |-> JNum(Len(widths))] >>)

FormatInit ==
  /\ entryPoint = "modular"
  /\ allowedSchemas = << >>
  /\ conns = << >>
  /\ calls = << >>
  /\ probe \in {[kind |-> "format", pc |-> "call", data |-> ResultOf(ws),
                 out |-> [text |-> << >>], again |-> [text |-> << >>]] :
                  ws \in UNION {[1..n -> RowWidths] : n \in 0..MaxRows}}

FormatRun ==
  /\ probe.kind = "format"
  /\ probe.pc = "call"
  /\ probe' = [probe EXCEPT !.pc = "done", !.out = formatResult(probe.data)]
  /\ UNCHANGED <<entryPoint, allowedSchemas, conns, calls>>

FormatNext == FormatRun

SpecFormat == FormatInit /\ [][FormatNext]_vars

\* formatResult is called a second time on the same result object
FormatAgain ==
  /\ probe.kind = "format"
  /\ probe.pc = "done"
  /\ probe' = [probe EXCEPT !.pc = "twice", !.again = formatResult(probe.data)]
  /\ UNCHANGED <<entryPoint, allowedSchemas, conns, calls>>

FormatTwiceNext == FormatRun \/ FormatAgain

SpecFormatTwice == FormatInit /\ [][FormatTwiceNext]_vars

(***************************************************************************)
(* Properties of the handlers (specification Spec).                        *)
(***************************************************************************)
\* the allow-list is configured and does not hold this exact name
Disallowed(schema) ==
  /\ Len(allowedSchemas) > 0
  /\ \A k \in DOMAIN allowedSchemas : allowedSchemas[k] # schema

HoldsClient(call) == call.pc \in {"set_timeout", "set_path", "user"}

\* C1: an operation with a schema parameter, called with a schema outside a
\* non-empty allow-list, fails with PermissionDenied, and at no point of the
\* invocation has it submitted or sent a statement to the database
C1_GateBeforeSql ==
  \A i \in CallIds :
    (calls[i].op \in SchemaOps /\ Disallowed(calls[i].schema)) =>
      /\ calls[i].pc = "done"
      /\ calls[i].result = "error"
      /\ calls[i].error = "PermissionDenied"
      /\ calls[i].sent = << >>
      /\ calls[i].waiting = {}
      /\ calls[i].inflight = {}

C1_Witness ==
  \E i \in CallIds :
    /\ calls[i].op = "query_table"
    /\ Disallowed(calls[i].schema)
    /\ calls[i].pc = "done"
    /\ calls[i].error = "PermissionDenied"

\* C3: every statement of an invocation runs under session settings that are
\* the server defaults or were set by that same invocation: a statement
\* timeout or search path set by one execute_query never reaches a statement
\* of another invocation
C3_SessionSettingsDoNotLeak ==
  \A i \in CallIds :
    \A k \in DOMAIN calls[i].sent :
      /\ calls[i].sent[k].timeoutBy \in {0, i}
      /\ calls[i].sent[k].pathBy \in {0, i}

\* C4: an execute_query invocation acquires at most one connection, holds it
\* while it runs its statements, has released it exactly once when it is done
\* on any exit path, and once no invocation is running no connection is
\* checked out
C4_ReleasedExactlyOnce ==
  /\ \A i \in CallIds :
       calls[i].op = "execute_query" =>
         /\ calls[i].acquired <= 1
         /\ calls[i].released <= calls[i].acquired
         /\ calls[i].pc = "done" => calls[i].released = calls[i].acquired
         /\ HoldsClient(calls[i]) =>
              /\ calls[i].acquired = 1
              /\ calls[i].released = 0
              /\ conns[calls[i].client].busy
  /\ (\A i \in CallIds : calls[i].pc \in {"idle", "done"} /\ calls[i].inflight = {})
       => \A c \in Conns : ~conns[c].busy

C4_Witness ==
  /\ \E i \in CallIds :
       /\ calls[i].op = "execute_query"
       /\ calls[i].pc = "done"
       /\ calls[i].error = "PackagingFailure"
       /\ calls[i].acquired = 1
       /\ calls[i].released = 1
  /\ \E i \in CallIds :
       /\ calls[i].op = "execute_query"
       /\ calls[i].pc = "done"
       /\ calls[i].error = "UpstreamFailure"
       /\ Len(calls[i].sent) = 1
       /\ calls[i].released = 1
  /\ \A c \in Conns : ~conns[c].busy

(***************************************************************************)
(* Properties of the schema gate (specification SpecGate).                 *)
(***************************************************************************)
GateDone == probe.kind = "gate" /\ probe.pc = "done"

\* C2: isAllowed is true for every name when the allow-list is empty and
\* otherwise exactly for the names that are, character for character, an
\* element of the list; assertAllowed fails exactly when isAllowed is false
C2_GateDecision ==
  GateDone =>
    /\ probe.isAllowed =
         (allowedSchemas = << >> \/ probe.schema \in Range(allowedSchemas))
    /\ probe.throws = ~probe.isAllowed

C2_Witness ==
  /\ GateDone
  /\ allowedSchemas = <<sPub, sApp>>
  /\ probe.schema = sPubUpper
  /\ probe.throws

(***************************************************************************)
(* Properties of the query guard and statement builder (SpecGuard).        *)
(***************************************************************************)
ExecDone == probe.kind = "execute_query" /\ probe.pc = "done"

Accepted == ExecDone /\ probe.out.error = "none"

BuildDone == probe.kind = "query_table" /\ probe.pc = "done"

\* parenthesis nesting depth of position i of s
Depth(s, i) ==
  Cardinality({j \in 1..(i - 1) : s[j] = "("}) - Cardinality({j \in 1..(i - 1) : s[j] = ")"})

\* start positions of the LIMIT <integer> clauses of s
LimitClauses(s) == {i \in 1..Len(s) : LimitMatchEnd(s, i) # 0}

LimitValueAt(s, i) ==
  parseInt(SubSeq(s, SkipSpaces(s, i + Len(KwLimit)), LimitMatchEnd(s, i)))

FirstOf(S) == CHOOSE i \in S : \A j \in S : i <= j

\* the statement is bounded as a whole: it has LIMIT clauses outside every
\* parenthesis, each with a value between 1 and 100
OuterCapInRange(s) ==
  LET outer == {i \in LimitClauses(s) : Depth(s, i) = 0}
  IN  outer # {} /\ \A i \in outer : LimitValueAt(s, i) \in 1..100

EndsWith(s, suffix) ==
  Len(s) >= Len(suffix) /\ SubSeq(s, Len(s) - Len(suffix) + 1, Len(s)) = suffix

\* C5: the statement that query_table or an accepted execute_query sends
\* bounds its result by an effective cap between 1 and 100
C5_StatementCapped ==
  /\ Accepted => OuterCapInRange(probe.out.finalQuery)
  /\ BuildDone =>
       /\ EndsWith(probe.out.query, LimitPrefix \o <<"$", "1">>)
       /\ Len(probe.out.params) = 1
       /\ probe.out.params[1] \in 1..100

\* C6: the final statement of an accepted execute_query holds exactly one
\* LIMIT clause and its value is min(requested cap, 100)
C6_OneLimitOfRequestedCap ==
  Accepted =>
    LET final == probe.out.finalQuery
    IN  /\ Cardinality(LimitClauses(final)) = 1
        /\ \A i \in LimitClauses(final) : LimitValueAt(final, i) = Min(probe.limit, 100)

\* C6 as amended: a statement without a LIMIT clause ends up with exactly one,
\* of value min(requested cap, 100); a statement with LIMIT clauses keeps
\* their number, and its first one gets the value min(its own value, 100)
C6_Amended ==
  Accepted =>
    LET final == probe.out.finalQuery
        given == LimitClauses(probe.query)
        kept  == LimitClauses(final)
    IN  /\ given = {} =>
              /\ Cardinality(kept) = 1
              /\ \A i \in kept : LimitValueAt(final, i) = Min(probe.limit, 100)
        /\ given # {} =>
              /\ Cardinality(kept) = Cardinality(given)
              /\ LimitValueAt(final, FirstOf(kept)) =
                   Min(LimitValueAt(probe.query, FirstOf(given)), 100)

C6_Witness ==
  /\ Accepted
  /\ Cardinality(LimitClauses(probe.query)) = 2
  /\ LimitValueAt(probe.query, FirstOf(LimitClauses(probe.query))) > 100
  /\ probe.limit = 5

\* C7: without a LIMIT <integer> in the text the result is the trimmed text
\* followed by " LIMIT min(requested cap, 100)"; with one, the result is the
\* trimmed text with its first LIMIT clause replaced by
\* "LIMIT min(existing value, 100)", whatever the requested cap
C7_LimitInjection ==
  Accepted =>
    LET t     == trim(probe.query)
        final == probe.out.finalQuery
    IN  /\ (LimitClauses(probe.query) = {}) = (LimitClauses(t) = {})
        /\ LimitClauses(t) = {} =>
              final = t \o <<" ", "L", "I", "M", "I", "T", " ">>
                        \o NumberToString(Min(probe.limit, 100))
        /\ LimitClauses(t) # {} =>
              LET i == FirstOf(LimitClauses(t))
              IN  final = SubSeq(t, 1, i - 1)
                            \o <<"L", "I", "M", "I", "T", " ">>
                            \o NumberToString(Min(LimitValueAt(t, i), 100))
                            \o SubSeq(t, LimitMatchEnd(t, i) + 1, Len(t))
        /\ (probe.query = ex500 /\ probe.limit = 5) => final = ex100

C7_Witness ==
  /\ Accepted
  /\ probe.query = ex500
  /\ probe.limit = 5
  /\ probe.out.finalQuery = ex100

\* the trimmed, lower-cased text begins with select or with
BeginsWithSelectOrWith(query) ==
  LET n == toLowerCase(trim(query))
  IN  \/ Len(n) >= 6 /\ SubSeq(n, 1, 6) = <<"s", "e", "l", "e", "c", "t">>
      \/ Len(n) >= 4 /\ SubSeq(n, 1, 4) = <<"w", "i", "t", "h">>

\* C8: a text whose trimmed, lower-cased form does not begin with select or
\* with fails with InvalidOperation on the prefix rule and yields no statement
\* to execute; a text that does begin with one of them passes the prefix rule
C8_PrefixCheck ==
  ExecDone =>
    IF BeginsWithSelectOrWith(probe.query)
    THEN probe.out.rule # "prefix"
    ELSE /\ probe.out.error = "InvalidOperation"
         /\ probe.out.rule = "prefix"
         /\ probe.out.finalQuery = << >>

C8_Witness ==
  /\ ExecDone
  /\ probe.query = exDel
  /\ probe.out.error = "InvalidOperation"
  /\ probe.out.rule = "prefix"

\* some deny-listed keyword stands in s as a whole word, followed by
\* whitespace and then by an object-context word
DenyListed(s) ==
  \E k \in DOMAIN forbiddenKeywords :
    \E i \in 1..Len(s) :
      LET kw    == forbiddenKeywords[k]
          after == i + Len(kw)
      IN  /\ after - 1 <= Len(s)
          /\ i = 1 \/ ~IsWordChar(s[i - 1])
          /\ toLowerCase(SubSeq(s, i, after - 1)) = kw
          /\ \E j \in (after + 1)..Len(s) :
                /\ \A m \in after..(j - 1) : IsSpace(s[m])
                /\ \E w \in objectContextWords :
                      /\ j + Len(w) - 1 <= Len(s)
                      /\ toLowerCase(SubSeq(s, j, j + Len(w) - 1)) = w
                      /\ j + Len(w) > Len(s) \/ ~IsWordChar(s[j + Len(w)])

\* C9: a text that passes the prefix check fails with InvalidOperation iff a
\* deny-listed keyword occurs in it as a whole word followed by whitespace and
\* an object-context word; "DELETE FROM users" fails and
\* "SELECT delete_date FROM logs" succeeds
C9_DenyList ==
  ExecDone =>
    /\ BeginsWithSelectOrWith(probe.query) =>
         ((probe.out.error = "InvalidOperation") = DenyListed(probe.query))
    /\ probe.query = exDel => probe.out.error = "InvalidOperation"
    /\ probe.query = exDelDate => probe.out.error = "none"

C9_Witness ==
  /\ ExecDone
  /\ BeginsWithSelectOrWith(probe.query)
  /\ probe.out.error = "InvalidOperation"
  /\ probe.out.rule = "keyword"
  /\ forbiddenKeywords[probe.out.keyword] = <<"d", "e", "l", "e", "t", "e">>

(***************************************************************************)
(* Properties of the result packager (specification SpecFormat).           *)
(***************************************************************************)
FormatDone == probe.kind = "format" /\ probe.pc = "done"

SerializedLength == Length(JSONstringify(probe.data))

\* C10: the text payload returned by format never exceeds 25000 characters
C10_PayloadWithinLimit ==
  FormatDone => Length(probe.out.text) <= 25000

\* C10 as amended: the payload never exceeds 25000 characters plus the length
\* of the truncation notice (its fixed text and the digits of the total
\* length), and a serialization of at most 25000 characters yields a payload
\* of at most 25000 characters
C10_Amended ==
  FormatDone =>
    /\ Length(probe.out.text) <=
         25000 + Len(NoticeHead) + Len(NumberToString(SerializedLength)) + Len(NoticeTail)
    /\ SerializedLength <= 25000 => Length(probe.out.text) <= 25000

C10_Witness ==
  /\ FormatDone
  /\ SerializedLength > 100000
  /\ Length(probe.out.text) > 25000

\* C11: a serialization of at most 25000 characters is returned exactly;
\* a longer one yields its first 25000 characters followed by the notice
\* that states the total length of the serialization, so the payload is at
\* most 25000 characters plus the notice long
C11_FormatExact ==
  FormatDone =>
    LET full   == JSONstringify(probe.data)
        notice == Cat(Packed(NoticeHead),
                      Cat(Packed(NumberToString(Length(full))), Packed(NoticeTail)))
    IN  /\ Length(full) <= 25000 => probe.out.text = full
        /\ Length(full) > 25000 =>
              /\ Slice0(probe.out.text, 25000) = Slice0(full, 25000)
              /\ probe.out.text = Cat(Slice0(full, 25000), notice)
              /\ Length(probe.out.text) = 25000 + Length(notice)

C11_Witness ==
  /\ FormatDone
  /\ SerializedLength = 25001
  /\ Length(probe.out.text) = 25000 + Len(NoticeHead) + 5 + Len(NoticeTail)

(***************************************************************************)
(* Properties of the responses of the handlers (specification Spec).       *)
(***************************************************************************)
\* C12: every successful response of every operation, in the registered
\* handlers and in handleToolCall, was produced by formatResult
C12_EveryResponsePackaged ==
  \A i \in CallIds :
    calls[i].result = "ok" => calls[i].packager = "formatResult"

(***************************************************************************)
(* list_schemas as a pure function of the database's schemas and the       *)
(* allow-list (specification SpecSchemas).                                 *)
(***************************************************************************)
sPgCatalog == <<"p","g","_","c","a","t","a","l","o","g">>

sInformationSchema == <<"i","n","f","o","r","m","a","t","i","o","n","_","s","c","h","e","m","a">>

sPgToast == <<"p","g","_","t","o","a","s","t">>

sAll == <<"a","l","l">>

\* the names the WHERE clause of the schemata query excludes
SystemSchemas == {sPgCatalog, sInformationSchema, sPgToast}

\* schemas a database may hold
DbSchemaNames == SchemaNames \cup {sPgCatalog}

\* ORDER BY schema_name under two collations of the database
CollationOrders ==
  [C     |-> <<sPubUpper, sApp, sPgCatalog, sPu, sPub>>,
   en_US |-> <<sApp, sPgCatalog, sPu, sPub, sPubUpper>>]

\* result.rows.map((row) => row.schema_name) of the schemata query
schemataRows(db, collation) ==
  LET Keep(n) == n \in db /\ n \notin SystemSchemas
  IN  SelectSeq(CollationOrders[collation], Keep)

\* listSchemas, were the rows returned as the database gave them
listSchemasUnfiltered(entry, schemas, allowed) ==
  [schemas |-> schemas, total |-> Len(schemas),
   configured_schemas |-> IF Len(allowed) > 0
                          THEN JArr([i \in DOMAIN allowed |-> JStr(allowed[i])])
                          ELSE JStr(sAll)]

\* the result object of list_schemas for the rows of the schemata query
listSchemas(entry, schemas, allowed) ==
  LET Allowed(n) == IF entry = "legacy" THEN isSchemaAllowed(allowed, n)
                                        ELSE includes(allowed, n)
      filtered   == IF Len(allowed) > 0 THEN SelectSeq(schemas, Allowed) ELSE schemas
  IN  [schemas |-> filtered, total |-> Len(filtered),
       configured_schemas |-> IF Len(allowed) > 0
                              THEN JArr([i \in DOMAIN allowed |-> JStr(allowed[i])])
                              ELSE JStr(sAll)]

SchemasInit ==
  /\ entryPoint \in Entries
  /\ allowedSchemas \in AllowedSeqs
  /\ conns = << >>
  /\ calls = << >>
  /\ probe \in {[kind |-> "list_schemas", pc |-> "call", db |-> db, collation |-> co,
                 out |-> listSchemas("modular", << >>, << >>)] :
                  db \in SUBSET DbSchemaNames, co \in DOMAIN CollationOrders}

\* the list_schemas handler from the answer of the schemata query on
SchemasRun ==
  /\ probe.kind = "list_schemas"
  /\ probe.pc = "call"
  /\ probe' = [probe EXCEPT !.pc = "done",
                !.out = listSchemas(entryPoint, schemataRows(probe.db, probe.collation),
                                    allowedSchemas)]
  /\ UNCHANGED <<entryPoint, allowedSchemas, conns, calls>>

SchemasNext == SchemasRun

SpecSchemas == SchemasInit /\ [][SchemasNext]_vars

SchemasDone == probe.kind = "list_schemas" /\ probe.pc = "done"

\* position of name n in the database's order
RankOf(n, collation) ==
  CHOOSE k \in DOMAIN CollationOrders[collation] : CollationOrders[collation][k] = n

\* C13: with a non-empty allow-list the returned list is exactly the
\* database's non-system schemas that are in the list, in the database's
\* order, and total is its length; with an empty allow-list it is all
\* non-system schemas and configured_schemas is "all"
C13_ListSchemas ==
  SchemasDone =>
    LET out       == probe.out
        nonSystem == probe.db \ SystemSchemas
        expected  == IF allowedSchemas # << >>
                     THEN nonSystem \cap Range(allowedSchemas) ELSE nonSystem
    IN  /\ Range(out.schemas) = expected
        /\ Len(out.schemas) = Cardinality(expected)
        /\ \A i, j \in DOMAIN out.schemas :
              i < j => RankOf(out.schemas[i], probe.collation)
                         < RankOf(out.schemas[j], probe.collation)
        /\ out.total = Len(out.schemas)
        /\ allowedSchemas = << >> => out.configured_schemas = JStr(sAll)
        /\ allowedSchemas # << >> =>
              /\ \A k \in DOMAIN out.schemas : includes(allowedSchemas, out.schemas[k])
              /\ out.configured_schemas.t = "arr"

C13_Witness ==
  /\ SchemasDone
  /\ allowedSchemas = <<sPub, sApp>>
  /\ probe.db = {sPub, sPubUpper, sApp, sPgCatalog}
  /\ probe.out.schemas = <<sApp, sPub>>
  /\ probe.out.total = 2

(***************************************************************************)
(* The paginated list handlers as a pure function of the answers of their  *)
(* two queries (specification SpecPage).                                   *)
(***************************************************************************)
MaxItems == 5

ListOps == {"list_tables", "list_functions", "list_triggers"}

\* values of the limit argument that pass z.number().int().min(1).max(500)
ListLimits == {1, 2, 50, 500}

\* values of the offset argument that pass z.number().int().min(0)
ListOffsets == 0..(MaxItems + 1)

\* countResult.rows[0].total: COUNT(*) arrives as the text of a bigint
countRow(n) == [total |-> NumberToString(n)]

\* pageRows, were OFFSET the position of the first row and not a count of
\* rows to skip
pageRowsFromPosition(m, limit, offset) ==
  LET first == Max(offset, 1)
  IN  [k \in 1..Min(limit, Max(0, m - first + 1)) |-> first - 1 + k]

\* the rows of "... ORDER BY name LIMIT $2 OFFSET $3" over m items, each row
\* standing for the position of its item in the order
pageRows(m, limit, offset) ==
  [k \in 1..Min(limit, Max(0, m - offset)) |-> offset + k]

\* listResult, were has_more computed from the limit that was asked for
listResultByLimit(countResult, rows, limit, offset) ==
  LET total == parseInt(countResult.total)
      count == Len(rows)
      base  == [items |-> rows, count |-> count, total |-> total, offset |-> offset,
                has_more |-> total > offset + limit]
  IN  IF total > offset + limit
      THEN base @@ [next_offset |-> offset + limit]
      ELSE base

\* the result object of a paginated list handler
listResult(countResult, rows, limit, offset) ==
  LET total == parseInt(countResult.total)
      count == Len(rows)
      base  == [items |-> rows, count |-> count, total |-> total, offset |-> offset,
                has_more |-> total > offset + count]
  IN  IF total > offset + count
      THEN base @@ [next_offset |-> offset + count]
      ELSE base

\* n items answer the count query and m the page query: the two statements
\* are separate pool.query calls, and the schema may change between them
PageInit ==
  /\ entryPoint = "modular"
  /\ allowedSchemas = << >>
  /\ conns = << >>
  /\ calls = << >>
  /\ probe \in {[kind |-> "list", pc |-> "call", op |-> op, n |-> n, m |-> m,
                 limit |-> l, offset |-> o,
                 out |-> listResult(countRow(0), << >>, 1, 0)] :
                  op \in ListOps, n \in 0..MaxItems, m \in 0..MaxItems,
                  l \in ListLimits, o \in ListOffsets}

PageRun ==
  /\ probe.kind = "list"
  /\ probe.pc = "call"
  /\ probe' = [probe EXCEPT !.pc = "done",
                !.out = listResult(countRow(probe.n),
                                   pageRows(probe.m, probe.limit, probe.offset),
                                   probe.limit, probe.offset)]
  /\ UNCHANGED <<entryPoint, allowedSchemas, conns, calls>>

PageNext == PageRun

SpecPage == PageInit /\ [][PageNext]_vars

PageDone == probe.kind = "list" /\ probe.pc = "done"

\* C14: count is the number of items in the page, total is the answer of
\* the count query, has_more = (total > offset + count), next_offset is
\* present iff has_more and then equals offset + count; limit 2, offset 0
\* over 5 items gives count 2, total 5, has_more, next_offset 2
C14_PaginationMetadata ==
  PageDone =>
    LET out == probe.out
    IN  /\ out.count = Len(out.items)
        /\ out.count = Min(probe.limit, Max(0, probe.m - probe.offset))
        /\ out.total = probe.n
        /\ out.has_more = (out.total > probe.offset + out.count)
        /\ ("next_offset" \in DOMAIN out) = out.has_more
        /\ out.has_more => out.next_offset = probe.offset + out.count
        /\ (probe.limit = 2 /\ probe.offset = 0 /\ probe.n = 5 /\ probe.m = 5) =>
              /\ out.count = 2 /\ out.total = 5
              /\ out.has_more /\ out.next_offset = 2

C14_Witness ==
  /\ PageDone
  /\ probe.op = "list_tables"
  /\ probe.limit = 2 /\ probe.offset = 0 /\ probe.n = 5 /\ probe.m = 5
  /\ probe.out.has_more
  /\ probe.out.next_offset = 2

\* C15: describe_table returns its result only after the columns, the
\* constraints and the indexes query have all returned rows; when one of
\* them fails the call fails and returns no result, partial or whole; and
\* the result holds each query's rows under that query's key whatever the
\* order in which the three completed
C15_DescribeFanIn ==
  \A i \in CallIds :
    calls[i].op = "describe_table" =>
      /\ calls[i].result = "ok" =>
            /\ Len(calls[i].completed) = 3
            /\ Range(calls[i].completed) = Range(DescribeQueries)
            /\ calls[i].failed = {}
            /\ calls[i].inflight = {} /\ calls[i].waiting = {}
            /\ calls[i].response =
                 [columns |-> "columns", constraints |-> "constraints",
                  indexes |-> "indexes"]
      /\ calls[i].failed # {} =>
            /\ calls[i].result = "error"
            /\ calls[i].response = NoResponse
            /\ calls[i].packager = "none"
      /\ calls[i].result # "ok" => calls[i].response = NoResponse

C15_Witness ==
  \E i \in CallIds :
    /\ calls[i].op = "describe_table"
    /\ calls[i].entry = "modular"
    /\ calls[i].result = "ok"
    /\ calls[i].completed = <<"indexes", "columns", "constraints">>
    /\ calls[i].response.columns = "columns"

C15_WitnessFailure ==
  \E i \in CallIds :
    /\ calls[i].op = "describe_table"
    /\ calls[i].failed = {"constraints"}
    /\ Range(calls[i].completed) = {"columns", "indexes"}
    /\ calls[i].result = "error"

\* "pub", "app" with its double quotes: the search path of <<sPub, sApp>>
exSearchPath == <<"\"","p","u","b","\"",","," ","\"","a","p","p","\"">>

\* C16: the user statement of execute_query runs through the dedicated client
\* after SET statement_timeout, under the 30000 ms timeout this invocation
\* set; with a non-empty allow-list it runs after SET search_path, under the
\* path of the allowed schemas, each double-quoted, comma-joined, in
\* configured order; with an empty allow-list no search path is set
C16_SettingsBeforeStatement ==
  \A i \in CallIds :
    \A k \in DOMAIN calls[i].sent :
      calls[i].sent[k].stmt = "user" =>
        LET before == {calls[i].sent[j].stmt : j \in 1..(k - 1)}
            user   == calls[i].sent[k]
        IN  /\ user.via = "client"
            /\ \A j \in 1..(k - 1) : calls[i].sent[j].via = "client"
            /\ "SET statement_timeout" \in before
            /\ user.statement_timeout = 30000 /\ user.timeoutBy = i
            /\ allowedSchemas # << >> =>
                  /\ "SET search_path" \in before
                  /\ user.pathBy = i
                  /\ allowedSchemas = <<sPub, sApp>> => user.search_path = exSearchPath
            /\ allowedSchemas = << >> =>
                  /\ "SET search_path" \notin before
                  /\ user.pathBy = 0 /\ user.search_path = << >>

C16_Witness ==
  \E i \in CallIds :
    /\ calls[i].op = "execute_query"
    /\ calls[i].result = "ok"
    /\ allowedSchemas = <<sPub, sApp>>
    /\ Len(calls[i].sent) = 3
    /\ calls[i].sent[3].stmt = "user"
    /\ calls[i].sent[3].search_path = exSearchPath

(***************************************************************************)
(* The dispatch boundary: what a tool call that returns or throws becomes  *)
(* on the transport (specification SpecDispatch).                          *)
(***************************************************************************)
MaxRequests == 2

ToolNames == PoolOps \cup {"execute_query"}

\* a name no case of the switch matches
UnknownTool == "unknown_tool"

\* the errors the body of an operation can raise: a thrown Error of the
\* handler, or a rejection of the driver (connection, statement, timeout)
Throwable(entry, name) ==
  CASE name = UnknownTool -> {"UnknownTool"}
    [] name = "list_schemas" -> {"UpstreamFailure"}
    [] name = "execute_query" -> {"InvalidOperation", "UpstreamFailure"}
    [] name \in {"get_function_definition", "get_trigger_definition"} ->
         {"PermissionDenied", "NotFound", "UpstreamFailure"}
    [] OTHER -> {"PermissionDenied", "UpstreamFailure"}

\* error.message of each error
MessageOf(kind) ==
  CASE kind = "PermissionDenied" -> "Schema 'X' is not in the allowed schemas list"
    [] kind = "InvalidOperation" -> "Solo se permiten consultas SELECT o WITH (CTE)."
    [] kind = "NotFound" -> "Function 'f' not found in schema 'X'"
    [] kind = "UnknownTool" -> "Unknown tool: unknown_tool"
    [] OTHER -> "canceling statement due to statement timeout"

\* the names a request can carry to the operation bodies: handleToolCall
\* receives any name, a registered handler only the name it was registered for
RequestNames(entry) ==
  IF entry = "legacy" THEN ToolNames \cup {UnknownTool} ELSE ToolNames

\* CallTool, were the error left to propagate out of the request handler
CallToolUncaught(entry, name, thrown) ==
  IF thrown = "none"
  THEN [fault |-> FALSE, isError |-> FALSE, content |-> <<"result">>]
  ELSE [fault |-> TRUE, isError |-> FALSE, content |-> << >>]

\* the CallToolRequest handler around an operation body that returned
\* (thrown = "none") or threw: the text parts of the response it returns.
\* The legacy handler is the try/catch around handleToolCall; a registered
\* handler runs inside the request handler of McpServer, which answers a
\* throw with the message and isError
CallTool(entry, name, thrown) ==
  IF thrown = "none"
  THEN [fault |-> FALSE, isError |-> FALSE, content |-> <<"result">>]
  ELSE IF entry = "legacy"
  THEN [fault |-> FALSE, isError |-> TRUE, content |-> <<"Error: ", MessageOf(thrown)>>]
  ELSE [fault |-> FALSE, isError |-> TRUE, content |-> <<MessageOf(thrown)>>]

DispatchInit ==
  /\ entryPoint \in Entries
  /\ allowedSchemas \in AllowedConfigs
  /\ conns = << >>
  /\ calls = << >>
  /\ probe = [kind |-> "dispatch", pc |-> "serving", log |-> << >>]

\* one request: the body of the named operation runs to a return or a throw
\* and the request handler answers
HandleRequest(name, thrown) ==
  /\ probe.kind = "dispatch"
  /\ probe.pc = "serving"
  /\ Len(probe.log) < MaxRequests
  /\ name \in RequestNames(entryPoint)
  /\ thrown \in Throwable(entryPoint, name) \cup (IF name = UnknownTool THEN {} ELSE {"none"})
  /\ probe' = [probe EXCEPT !.log = Append(@,
                  [name |-> name, thrown |-> thrown,
                   response |-> CallTool(entryPoint, name, thrown)])]
  /\ UNCHANGED <<entryPoint, allowedSchemas, conns, calls>>

DispatchNext ==
  \E name \in ToolNames \cup {UnknownTool},
     thrown \in {"none", "PermissionDenied", "InvalidOperation", "NotFound",
                 "UpstreamFailure", "UnknownTool"} : HandleRequest(name, thrown)

SpecDispatch == DispatchInit /\ [][DispatchNext]_vars

\* C17: an error raised by an operation body becomes a response carrying the
\* error flag and the error message, never a fault of the transport, and the
\* server stays in its serving state whatever the earlier requests raised
C17_ErrorsBecomeResponses ==
  probe.kind = "dispatch" =>
    /\ probe.pc = "serving"
    /\ \A k \in DOMAIN probe.log :
          LET entry == probe.log[k]
          IN  /\ ~entry.response.fault
              /\ entry.response.isError = (entry.thrown # "none")
              /\ entry.thrown # "none" =>
                    MessageOf(entry.thrown) \in Range(entry.response.content)

C17_Witness ==
  /\ probe.kind = "dispatch"
  /\ entryPoint = "legacy"
  /\ Len(probe.log) = 2
  /\ probe.log[1].name = UnknownTool
  /\ probe.log[1].response.isError
  /\ probe.log[2].name = "list_schemas"
  /\ probe.log[2].thrown = "none"
  /\ ~probe.log[2].response.isError

(***************************************************************************)
(* get_function_definition and get_trigger_definition as a pure function   *)
(* of the request and the rows of the lookup (specification SpecLookup).   *)
(***************************************************************************)
MaxMatches == 2

LookupOps == {"get_function_definition", "get_trigger_definition"}

fName == <<"f">>

gName == <<"t","r","g">>

ObjectNames == {fName, gName}

\* rows the lookup may return: a function name can match several overloads
LookupRows == UNION {[1..n -> {"row_a", "row_b"}] : n \in 0..MaxMatches}

txtFunction == <<"F","u","n","c","t","i","o","n"," ","'">>

txtTrigger == <<"T","r","i","g","g","e","r"," ","'">>

txtNotFoundIn == <<"'"," ","n","o","t"," ","f","o","u","n","d"," ","i","n"," ","s","c","h","e","m","a"," ","'">>

txtQuote == <<"'">>

\* `Function '${function_name}' not found in schema '${schema}'` and its
\* trigger counterpart
notFoundMessage(op, name, schema) ==
  (IF op = "get_function_definition" THEN txtFunction ELSE txtTrigger)
    \o name \o txtNotFoundIn \o schema \o txtQuote

\* definitionResult, were the first row returned without the length check
definitionResultUnchecked(entry, op, schema, name, allowed, rows) ==
  IF GateThrows(entry, schema, allowed)
  THEN [error |-> "PermissionDenied", message |-> << >>, value |-> "none"]
  ELSE [error |-> "none", message |-> << >>,
        value |-> IF rows = << >> THEN "undefined" ELSE rows[1]]

\* the handler after the schema check, given the rows of its lookup
definitionResult(entry, op, schema, name, allowed, rows) ==
  IF GateThrows(entry, schema, allowed)
  THEN [error |-> "PermissionDenied", message |-> << >>, value |-> "none"]
  ELSE IF Len(rows) = 0
  THEN [error |-> "NotFound", message |-> notFoundMessage(op, name, schema),
        value |-> "none"]
  ELSE [error |-> "none", message |-> << >>, value |-> rows[1]]

LookupInit ==
  /\ entryPoint \in Entries
  /\ allowedSchemas \in AllowedConfigs
  /\ conns = << >>
  /\ calls = << >>
  /\ probe \in {[kind |-> "lookup", pc |-> "call", op |-> op, schema |-> sc, name |-> n,
                 rows |-> rows,
                 out |-> [error |-> "none", message |-> << >>, value |-> "none"]] :
                  op \in LookupOps, sc \in SchemaNames, n \in ObjectNames,
                  rows \in LookupRows}

LookupRun ==
  /\ probe.kind = "lookup"
  /\ probe.pc = "call"
  /\ probe' = [probe EXCEPT !.pc = "done",
                !.out = definitionResult(entryPoint, probe.op, probe.schema, probe.name,
                                         allowedSchemas, probe.rows)]
  /\ UNCHANGED <<entryPoint, allowedSchemas, conns, calls>>

LookupNext == LookupRun

SpecLookup == LookupInit /\ [][LookupNext]_vars

LookupDone == probe.kind = "lookup" /\ probe.pc = "done"

\* text sub occurs in text s
Contains(s, sub) ==
  \E k \in 1..(Len(s) - Len(sub) + 1) : SubSeq(s, k, k + Len(sub) - 1) = sub

\* "Function 'f' not found in schema 'pub'"
exNotFound == <<"F","u","n","c","t","i","o","n"," ","'","f","'"," ","n","o","t"," ","f","o","u","n","d"," ","i","n"," ","s","c","h","e","m","a"," ","'","p","u","b","'">>

\* C18: for an allowed schema, a lookup of zero rows fails with NotFound and
\* a message naming the object and the schema, never a success; a lookup of
\* one or more rows succeeds with the first row
C18_NotFound ==
  (LookupDone /\ isSchemaAllowed(allowedSchemas, probe.schema)) =>
    LET out == probe.out
    IN  /\ Len(probe.rows) = 0 =>
              /\ out.error = "NotFound"
              /\ out.value = "none"
              /\ Contains(out.message, txtQuote \o probe.name \o txtQuote)
              /\ Contains(out.message, txtQuote \o probe.schema \o txtQuote)
              /\ (probe.op = "get_function_definition" /\ probe.name = fName
                     /\ probe.schema = sPub) => out.message = exNotFound
        /\ Len(probe.rows) >= 1 =>
              /\ out.error = "none"
              /\ out.value = probe.rows[1]

C18_Witness ==
  /\ LookupDone
  /\ allowedSchemas = <<sPub, sApp>>
  /\ probe.schema = sPub
  /\ probe.op = "get_function_definition"
  /\ probe.name = fName
  /\ probe.rows = << >>
  /\ probe.out.error = "NotFound"

(***************************************************************************)
(* Properties of the statement builder (specification SpecGuard).          *)
(***************************************************************************)
txtSelect == <<"S","E","L","E","C","T"," ">>

txtFromQuoted == <<" ","F","R","O","M"," ","\"">>

txtDotQuoted == <<"\"",".","\"">>

txtWhere == <<" ","W","H","E","R","E"," ">>

txtLimitParam == <<" ","L","I","M","I","T"," ","$","1">>

\* C19: the text is SELECT <columns> FROM "<schema>"."<table>", then
\*  WHERE <where> verbatim iff a non-empty where fragment is given, then
\*  LIMIT $1; the parameters are exactly [cap] with 1 <= cap <= 100, the cap
\* is not written into the text, and the limit field is the bound cap
C19_StatementConstruction ==
  BuildDone =>
    LET out  == probe.out
        head == txtSelect \o probe.columns \o txtFromQuoted \o probe.schema
                  \o txtDotQuoted \o probe.table \o <<"\"">>
    IN  /\ probe.where # << >> =>
              out.query = head \o txtWhere \o probe.where \o txtLimitParam
        /\ probe.where = << >> => out.query = head \o txtLimitParam
        /\ Len(out.params) = 1
        /\ out.params[1] \in 1..100
        /\ probe.limit \in 1..100 => out.params[1] = probe.limit
        /\ out.limit = out.params[1]
        /\ LimitClauses(out.query) = {}

C19_Witness ==
  /\ BuildDone
  /\ entryPoint = "legacy"
  /\ probe.where # << >>
  /\ probe.limit = 500
  /\ probe.out.params = <<100>>
  /\ EndsWith(probe.out.query, txtLimitParam)

(***************************************************************************)
(* The parameter contract: what reaches the operation body for each value  *)
(* of limit and offset in a request (specification SpecParams).            *)
(***************************************************************************)
\* DEFAULT_LIMIT of the environment, as configured by default
defaultLimit == 5

Absent == [t |-> "absent", v |-> 0]

IntArg(n) == [t |-> "int", v |-> n]

\* a number that is not an integer, such as 2.5, written by its floor
FracArg(n) == [t |-> "frac", v |-> n]

ParamOps == ListOps \cup {"query_table", "execute_query"}

LimitArgs == {Absent, IntArg(0), IntArg(1), IntArg(50), IntArg(100), IntArg(101),
              IntArg(500), IntArg(501), FracArg(2)}

OffsetArgs == {Absent, IntArg(-1), IntArg(0), IntArg(3), FracArg(1)}

\* z.number().int().min(lo).max(hi).default(def): the parsed value, or a
\* rejection; hi = -1 stands for no upper bound
zodInt(arg, lo, hi, def) ==
  CASE arg.t = "absent" -> [ok |-> TRUE, value |-> IntArg(def)]
    [] arg.t = "frac" -> [ok |-> FALSE, value |-> arg]
    [] OTHER -> [ok |-> arg.v >= lo /\ (hi = -1 \/ arg.v <= hi), value |-> arg]

\* const { ..., limit = defaultLimit } = args
destructureDefault(arg, def) == IF arg.t = "absent" THEN IntArg(def) ELSE arg

\* what the body of an operation is entered with: a registered handler is
\* called with the arguments its inputSchema parsed, or not called when the
\* parse fails; a case of handleToolCall destructures args as they came, and
\* the list cases read neither limit nor offset
enterBody(entry, op, limit, offset) ==
  IF entry = "modular"
  THEN LET l == IF op \in ListOps THEN zodInt(limit, 1, 500, 50)
                                  ELSE zodInt(limit, 1, 100, defaultLimit)
           o == IF op \in ListOps THEN zodInt(offset, 0, -1, 0)
                                  ELSE [ok |-> TRUE, value |-> Absent]
       IN  IF l.ok /\ o.ok
           THEN [rejected |-> FALSE, ran |-> TRUE, limit |-> l.value, offset |-> o.value]
           ELSE [rejected |-> TRUE, ran |-> FALSE, limit |-> Absent, offset |-> Absent]
  ELSE IF op \in ListOps
  THEN [rejected |-> FALSE, ran |-> TRUE, limit |-> Absent, offset |-> Absent]
  ELSE [rejected |-> FALSE, ran |-> TRUE,
        limit |-> destructureDefault(limit, defaultLimit), offset |-> Absent]

ParamsInit ==
  /\ entryPoint \in Entries
  /\ allowedSchemas = << >>
  /\ conns = << >>
  /\ calls = << >>
  /\ probe \in {[kind |-> "params", pc |-> "call", op |-> op, limit |-> l, offset |-> o,
                 out |-> [rejected |-> FALSE, ran |-> FALSE,
                          limit |-> Absent, offset |-> Absent]] :
                  op \in ParamOps, l \in LimitArgs,
                  o \in OffsetArgs}

\* a request arrives; every SQL statement of an operation is issued by its body
ParamsRun ==
  /\ probe.kind = "params"
  /\ probe.pc = "call"
  /\ probe' = [probe EXCEPT !.pc = "done",
                !.out = enterBody(entryPoint, probe.op, probe.limit, probe.offset)]
  /\ UNCHANGED <<entryPoint, allowedSchemas, conns, calls>>

ParamsNext == ParamsRun

SpecParams == ParamsInit /\ [][ParamsNext]_vars

ParamsDone == probe.kind = "params" /\ probe.pc = "done"

\* the argument is given and is not an integer of lo..hi (hi = -1: unbounded)
OutOfContract(arg, lo, hi) ==
  /\ arg.t # "absent"
  /\ \/ arg.t = "frac"
     \/ arg.v < lo
     \/ (hi # -1 /\ arg.v > hi)

ViolatesContract ==
  IF probe.op \in ListOps
  THEN OutOfContract(probe.limit, 1, 500) \/ OutOfContract(probe.offset, 0, -1)
  ELSE OutOfContract(probe.limit, 1, 100)

\* C20: in every entry point a request whose limit, offset or row cap
\* violates its contract is rejected and its body does not run, so it
\* issues no SQL; an omitted argument takes its default (50, 0, the
\* configured default cap)
C20_ContractEnforced ==
  ParamsDone =>
    /\ ViolatesContract => (probe.out.rejected /\ ~probe.out.ran)
    /\ (~ViolatesContract /\ probe.limit = Absent) =>
          probe.out.limit = IntArg(IF probe.op \in ListOps THEN 50 ELSE defaultLimit)
    /\ (~ViolatesContract /\ probe.op \in ListOps /\ probe.offset = Absent) =>
          probe.out.offset = IntArg(0)

\* the registered handlers alone keep the contract
C20_ModularContractEnforced ==
  entryPoint = "modular" => C20_ContractEnforced

C20_ModularWitness ==
  /\ ParamsDone
  /\ entryPoint = "modular"
  /\ probe.op = "query_table"
  /\ probe.limit = IntArg(500)
  /\ probe.out.rejected

(***************************************************************************)
(* Start-up: main() of either entry point (specification SpecStartup).     *)
(***************************************************************************)
\* the process before main() has run
StartupInit ==
  /\ entryPoint \in Entries
  /\ allowedSchemas \in AllowedConfigs
  /\ conns = << >>
  /\ calls = << >>
  /\ probe = [kind |-> "startup", pc |-> "created", exitCode |-> -1, served |-> << >>]

\* await server.connect(transport): from here on the transport delivers
\* requests to the registered handlers
ConnectTransport ==
  /\ probe.kind = "startup"
  /\ probe.pc = "created"
  /\ probe' = [probe EXCEPT !.pc = "checking"]
  /\ UNCHANGED <<entryPoint, allowedSchemas, conns, calls>>

\* await pool.query('SELECT 1') resolves
CheckSucceeds ==
  /\ probe.kind = "startup"
  /\ probe.pc = "checking"
  /\ probe' = [probe EXCEPT !.pc = "ready"]
  /\ UNCHANGED <<entryPoint, allowedSchemas, conns, calls>>

\* await pool.query('SELECT 1') rejects: process.exit(1)
CheckFails ==
  /\ probe.kind = "startup"
  /\ probe.pc = "checking"
  /\ probe' = [probe EXCEPT !.pc = "exited", !.exitCode = 1]
  /\ UNCHANGED <<entryPoint, allowedSchemas, conns, calls>>

\* a tool call arrives on the connected transport of the running process and
\* its handler runs; served records the state of main() at that moment
ServeRequest(name) ==
  /\ probe.kind = "startup"
  /\ probe.pc \in {"checking", "ready"}
  /\ Len(probe.served) < MaxRequests
  /\ probe' = [probe EXCEPT !.served = Append(@, [name |-> name, during |-> probe.pc])]
  /\ UNCHANGED <<entryPoint, allowedSchemas, conns, calls>>

StartupNext ==
  \/ ConnectTransport
  \/ CheckSucceeds
  \/ CheckFails
  \/ \E name \in ToolNames : ServeRequest(name)

SpecStartup == StartupInit /\ [][StartupNext]_vars

\* C21: no request is dispatched before the start-up check has succeeded,
\* and a failed check exits with a non-zero status with no request served
C21_CheckBeforeServing ==
  probe.kind = "startup" =>
    /\ \A k \in DOMAIN probe.served : probe.served[k].during = "ready"
    /\ probe.pc = "exited" => (probe.exitCode # 0 /\ probe.served = << >>)

(***************************************************************************)
(* Properties of repeated formatting (specification SpecFormatTwice).      *)
(***************************************************************************)
\* the payload is longer than the limit: the text was cut and the notice added
Truncated(text) == Length(text) > CHARACTER_LIMIT

ValidationFails(query) == ~BeginsWithSelectOrWith(query) \/ DenyListed(query)

\* connections checked out by the calls 1..k: a dedicated client each, and
\* one per pool query in flight
RECURSIVE CheckedOutBy(_)
CheckedOutBy(k) ==
  IF k = 0 THEN 0
  ELSE CheckedOutBy(k - 1) + Cardinality(calls[k].inflight)
         + (IF HoldsClient(calls[k]) THEN 1 ELSE 0)

\* C23: an execute_query whose text fails validation fails with
\* InvalidOperation, has acquired no connection, has sent no statement, SET
\* or other, and has produced no rewritten statement; the connections
\* checked out of the pool are those of the other calls alone
C23_RejectedTouchesNothing ==
  /\ \A i \in CallIds :
       (calls[i].op = "execute_query" /\ ValidationFails(calls[i].query)) =>
         /\ calls[i].pc = "done"
         /\ calls[i].error = "InvalidOperation"
         /\ calls[i].acquired = 0 /\ calls[i].client = 0
         /\ calls[i].sent = << >>
         /\ calls[i].finalQuery = << >>
         /\ ~HoldsClient(calls[i])
  /\ Cardinality({c \in Conns : conns[c].busy}) = CheckedOutBy(NCalls)

C23_Witness ==
  \E i, j \in CallIds :
    /\ calls[i].op = "execute_query"
    /\ calls[i].query = exDel
    /\ calls[i].error = "InvalidOperation"
    /\ calls[j].op = "execute_query"
    /\ HoldsClient(calls[j])
    /\ Cardinality({c \in Conns : conns[c].busy}) = 1

(***************************************************************************)
(* A client paging through a list operation over an unchanging catalog     *)
(* (specification SpecTraverse).                                           *)
(***************************************************************************)
TraverseInit ==
  /\ entryPoint = "modular"
  /\ allowedSchemas = << >>
  /\ conns = << >>
  /\ calls = << >>
  /\ probe \in {[kind |-> "traverse", pc |-> "paging", op |-> op, n |-> n, limit |-> l,
                 start |-> o, offset |-> o, pages |-> 0, seen |-> << >>,
                 last |-> listResult(countRow(0), << >>, 1, 0)] :
                  op \in ListOps, n \in 0..MaxItems, l \in ListLimits, o \in ListOffsets}

\* one call of the list operation at the current offset; the client goes on
\* with offset := next_offset while has_more is true
NextPage ==
  /\ probe.kind = "traverse"
  /\ probe.pc = "paging"
  /\ LET out == listResult(countRow(probe.n),
                           pageRows(probe.n, probe.limit, probe.offset),
                           probe.limit, probe.offset)
     IN  probe' = [probe EXCEPT
           !.pages = @ + 1,
           !.seen = @ \o out.items,
           !.last = out,
           !.pc = IF out.has_more THEN "paging" ELSE "finished",
           !.offset = IF out.has_more THEN out.next_offset ELSE @]
  /\ UNCHANGED <<entryPoint, allowedSchemas, conns, calls>>

TraverseNext == NextPage

\* the client keeps calling while there is more
SpecTraverse == TraverseInit /\ [][TraverseNext]_vars /\ WF_vars(TraverseNext)

TraverseFinished == probe.kind = "traverse" /\ probe.pc = "finished"

TraversalSafe ==
  probe.kind = "traverse" =>
    /\ probe.pages <= probe.n + 1
    /\ \A i, j \in DOMAIN probe.seen : i # j => probe.seen[i] # probe.seen[j]
    /\ (probe.pages > 0 /\ probe.last.offset >= probe.n) =>
          (probe.last.count = 0 /\ ~probe.last.has_more)
    /\ probe.pc = "finished" =>
          /\ ~probe.last.has_more
          /\ "next_offset" \notin DOMAIN probe.last
          /\ probe.start = 0 => probe.seen = [k \in 1..probe.n |-> k]

LiveOps == {"describe_table", "list_tables", "get_function_definition"}

LiveInit ==
  /\ entryPoint \in Entries
  /\ allowedSchemas = <<sPub, sApp>>
  /\ conns = [c \in Conns |-> FreshConn]
  /\ calls = [i \in CallIds |-> IdleCall]
  /\ probe = [kind |-> "none"]

LiveNext ==
  \/ \E i \in CallIds, op \in LiveOps : CallPoolOp(i, op, sPub)
  \/ \E i \in CallIds, q \in QueryNames, c \in Conns : Dispatch(i, q, c)
  \/ \E i \in CallIds, q \in QueryNames, c \in Conns, outcome \in {"rows", "empty", "error"} :
        Reply(i, q, c, outcome)
  \/ \E i \in CallIds, q \in QueryNames : AcquireTimeout(i, q)
  \/ \E i \in CallIds : CallExecuteQuery(i, ex500, 5)
  \/ \E i \in CallIds, c \in Conns : Connect(i, c)
  \/ \E i \in CallIds : ConnectFail(i)
  \/ \E i \in CallIds, outcome \in {"ok", "error"} : SetTimeout(i, outcome)
  \/ \E i \in CallIds, outcome \in {"ok", "error"} : SetSearchPath(i, outcome)
  \/ \E i \in CallIds, outcome \in {"ok", "error", "timeout", "badresult"} :
        UserQuery(i, outcome)

\* the steps of invocation i that the pool or the database takes: a waiting
\* request is given an idle connection, a statement returns rows or an error
Step(i) ==
  \/ \E q \in QueryNames, c \in Conns : Dispatch(i, q, c)
  \/ \E q \in QueryNames, c \in Conns, outcome \in {"rows", "empty", "error"} :
        Reply(i, q, c, outcome)
  \/ \E c \in Conns : Connect(i, c)
  \/ \E outcome \in {"ok", "error"} : SetTimeout(i, outcome)
  \/ \E outcome \in {"ok", "error"} : SetSearchPath(i, outcome)
  \/ \E outcome \in {"ok", "error", "timeout", "badresult"} : UserQuery(i, outcome)

SpecLive ==
  LiveInit /\ [][LiveNext]_vars /\ \A i \in CallIds : WF_vars(Step(i))

\* invocation i asks the pool for a connection and has not been given it
WaitsForConnection(i) == calls[i].waiting # {} \/ calls[i].pc = "connect"

NoHoldAndWait ==
  \A i \in CallIds :
    /\ WaitsForConnection(i) =>
          (~HoldsClient(calls[i]) /\ calls[i].acquired = calls[i].released)
    /\ HoldsClient(calls[i]) =>
          /\ calls[i].op = "execute_query"
          /\ calls[i].client \in Conns
          /\ conns[calls[i].client].busy
          /\ calls[i].acquired = 1
          /\ calls[i].released = 0
          /\ calls[i].inflight = {}
    /\ calls[i].op = "execute_query" =>
          /\ calls[i].acquired <= 1
          /\ \A k \in DOMAIN calls[i].sent : calls[i].sent[k].via = "client"
    /\ calls[i].op \in PoolOps =>
          /\ calls[i].acquired = 0
          /\ calls[i].client = 0
          /\ \A k \in DOMAIN calls[i].sent : calls[i].sent[k].via = "pool"

EveryCallCompletes ==
  \A i \in CallIds : (calls[i].pc # "idle") ~> (calls[i].pc = "done")

\* C25: no invocation waits for a pooled connection while it holds one
\* (execute_query holds one dedicated connection and sends all its
\* statements on it, every other operation only uses pool queries that
\* release by themselves), and every invocation that has started eventually
\* completes, given that each statement eventually returns
C25_NoHoldAndWait == []NoHoldAndWait /\ EveryCallCompletes

\* every connection is checked out, one by a dedicated client, and a query
\* of the other invocation waits for a connection
C25_Witness ==
  /\ calls[1].op = "execute_query"
  /\ calls[1].pc = "user"
  /\ calls[2].op = "describe_table"
  /\ calls[2].entry = "modular"
  /\ calls[2].inflight # {}
  /\ calls[2].waiting # {}
  /\ \A c \in Conns : conns[c].busy

(***************************************************************************)
(* The limit handling of execute_query applied to its own output           *)
(* (specification SpecRelimit).                                            *)
(***************************************************************************)
RelimitInit ==
  /\ entryPoint = "modular"
  /\ allowedSchemas = << >>
  /\ conns = << >>
  /\ calls = << >>
  /\ probe \in {[kind |-> "relimit", pc |-> "call", query |-> q, limit |-> l,
                 limit2 |-> 0, out |-> executeQueryGuard(<< >>, 1), again |-> << >>] :
                  q \in Texts, l \in RequestedCaps}

\* the handler up to the statement it passes to client.query
LimitOnce ==
  /\ probe.kind = "relimit"
  /\ probe.pc = "call"
  /\ LET out == executeQueryGuard(probe.query, probe.limit)
     IN  probe' = [probe EXCEPT !.out = out,
                                !.pc = IF out.error = "none" THEN "once" ELSE "rejected"]
  /\ UNCHANGED <<entryPoint, allowedSchemas, conns, calls>>

\* the limit handling run on the statement it produced, under cap limit2
LimitAgain(limit2) ==
  /\ probe.kind = "relimit"
  /\ probe.pc = "once"
  /\ probe' = [probe EXCEPT !.pc = "twice", !.limit2 = limit2,
                            !.again = injectLimit(probe.out.finalQuery, limit2)]
  /\ UNCHANGED <<entryPoint, allowedSchemas, conns, calls>>

RelimitNext ==
  \/ LimitOnce
  \/ \E limit2 \in RequestedCaps \cup UncheckedCaps : LimitAgain(limit2)

SpecRelimit == RelimitInit /\ [][RelimitNext]_vars

\* C26: for an accepted text and a requested cap in [1,100], the limit
\* handling applied to its own output, under any cap, gives the text that one
\* application gave
C26_LimitIdempotent ==
  (probe.kind = "relimit" /\ probe.pc = "twice") =>
    probe.again = probe.out.finalQuery

\* a second application under another cap, on a text whose LIMIT clause the
\* first application rewrote
C26_Witness ==
  /\ probe.kind = "relimit"
  /\ probe.pc = "twice"
  /\ probe.query = ex500
  /\ probe.limit = 5
  /\ probe.limit2 = 1
  /\ probe.out.finalQuery = ex100
  /\ probe.again = ex100

====
